---- MODULE Spec2Model ----
(***************************************************************************)
(* View components of the desktop Git client and their event handlers:     *)
(*   CommitMessageAvatar  (ui/changes/commit-message-avatar.tsx:1-303)     *)
(*   PushPullButton       (ui/changes/commit-message-avatar.tsx:305-843)   *)
(*   Popover              (ui/lib/popover.tsx:1-398)                       *)
(*   DeleteRemoteBranch   (ui/lib/popover.tsx:400-474)                     *)
(*                                                                         *)
(* The components share no state, so every behaviour explores one          *)
(* component instance: Init chooses it (unit) and only its handlers are    *)
(* enabled.  One action is one run of a handler on the single-threaded UI  *)
(* loop, up to its end or up to its first await.                           *)
(*                                                                         *)
(* last   the handler run by the most recent step and the value its event  *)
(*        carried; calls  the calls that run made, in program order;       *)
(* suspended  the handlers that are parked at an await.                    *)
(***************************************************************************)
EXTENDS Naturals, Sequences, FiniteSets, TLC

VARIABLES
    unit, last, calls, suspended,
    \* CommitMessageAvatar: props, state, the parent's email update;
    \* clicks: the avatar clicks so far while nothing else was handled
    \* (MaxClicks + 1 once another handler ran or the count passed MaxClicks)
    warningType, email, preferredAccountEmail,
    isPopoverOpen, accountEmail, updateCall,
    ctorPreferredEmail, lastSelection, lastValidSelection, clicks,
    \* Popover: props, instance fields, state, what it registered
    popPhase, anchor, onClickOutside, onMousedownOutside,
    clickListener, mousedownListener, containerDivRef,
    floatingCleanUp, autoUpdateActive, computing, position,
    \* DeleteRemoteBranch: props, state, the position of deleteBranch
    repository, branch, isDeleting, deletePc, captured,
    \* PushPullButton: its props
    pushPull

avatarVars == <<warningType, email, preferredAccountEmail, isPopoverOpen,
                accountEmail, updateCall, ctorPreferredEmail, lastSelection,
                lastValidSelection, clicks>>

popoverVars == <<popPhase, anchor, onClickOutside, onMousedownOutside,
                 clickListener, mousedownListener, containerDivRef,
                 floatingCleanUp, autoUpdateActive, computing, position>>

dialogVars == <<repository, branch, isDeleting, deletePc, captured>>

vars == <<unit, last, calls, suspended, avatarVars, popoverVars, dialogVars,
          pushPull>>

Units == {"CommitMessageAvatar", "Popover", "DeleteRemoteBranch",
          "PushPullButton"}

\* Largest ahead and behind counts, and largest number of tags to push.
MaxCommits == 2

MaxTags == 2

\* updatePosition runs that may await computePosition at the same time.
MaxPending == 2

\* Avatar clicks counted in an unbroken run of clicks since construction.
MaxClicks == 3

NoHandler == [h |-> "constructor", arg |-> ""]

Handled(h, arg) == [h |-> h, arg |-> arg]

(***************************************************************************)
(* Popover                                                                 *)
(***************************************************************************)

\* The anchor prop: undefined, null, or an element.
AnchorElements == {"anchorA", "anchorB"}

Anchors == AnchorElements \cup {"undefined", "null"}

\* Where the target of a document event lies: in the popover's own div, in
\* the div's parent element but not in the div, elsewhere in the document,
\* or it is no Node (the window).
Targets == {"inPopover", "inParent", "outsideParent", "notANode"}

IsNode(target) == target # "notANode"

\* ref.parentElement: a div React has mounted hangs under a host element.
ParentElement(ref) == IF ref = "null" THEN "null" ELSE "parent"

\* Variant: containment tested on the popover's own div.
OwnElementContains(target) == target \in {"inPopover"}

ParentContains(target) == target \in {"inPopover", "inParent"}

\* The guard of onDocumentClick and onDocumentMouseDown.
CallsOutside(ref, target, handlerProp) ==
    /\ ref # "null"
    /\ ParentElement(ref) # "null"
    /\ IsNode(target)
    /\ ~ParentContains(target)
    /\ handlerProp

NoAnchor(a, ref) == a = "null" \/ a = "undefined" \/ ref = "null"

PopoverInit ==
    /\ popPhase = "constructed"
    /\ anchor \in Anchors
    /\ onClickOutside \in BOOLEAN
    /\ onMousedownOutside \in BOOLEAN
    /\ clickListener = FALSE
    /\ mousedownListener = FALSE
    /\ containerDivRef = "null"
    /\ floatingCleanUp = "null"
    /\ autoUpdateActive = FALSE
    /\ computing = <<>>
    /\ position = "null"

PopoverIdle ==
    /\ popPhase = "constructed"
    /\ anchor = "undefined"
    /\ onClickOutside = FALSE
    /\ onMousedownOutside = FALSE
    /\ clickListener = FALSE
    /\ mousedownListener = FALSE
    /\ containerDivRef = "null"
    /\ floatingCleanUp = "null"
    /\ autoUpdateActive = FALSE
    /\ computing = <<>>
    /\ position = "null"

\* setupPosition: floatingCleanUp?.() cancels the subscription the field
\* refers to; with an anchor and a mounted div, autoUpdate starts a new one.
SetupPositionActive(a, ref, cleanup, active) ==
    IF NoAnchor(a, ref)
    THEN (IF cleanup # "null" THEN FALSE ELSE active)
    ELSE TRUE

SetupPositionCleanUp(a, ref, cleanup) ==
    IF NoAnchor(a, ref) THEN cleanup ELSE "cleanup"

componentDidMount ==
    /\ unit = "Popover"
    /\ popPhase = "constructed"
    /\ popPhase' = "mounted"
    /\ containerDivRef' = "div"
    /\ clickListener' = TRUE
    /\ mousedownListener' = TRUE
    /\ autoUpdateActive' =
          SetupPositionActive(anchor, "div", floatingCleanUp, autoUpdateActive)
    /\ floatingCleanUp' = SetupPositionCleanUp(anchor, "div", floatingCleanUp)
    /\ calls' = << <<"addEventListener", "click">>,
                   <<"addEventListener", "mousedown">>,
                   <<"setupPosition">> >>
    /\ last' = Handled("componentDidMount", "")
    /\ UNCHANGED <<unit, suspended, anchor, onClickOutside, onMousedownOutside,
                   computing, position>>
    /\ UNCHANGED <<avatarVars, dialogVars, pushPull>>

\* The parent renders the popover with another anchor: componentDidUpdate.
componentDidUpdate ==
    /\ unit = "Popover"
    /\ popPhase = "mounted"
    /\ \E a \in Anchors \ {anchor} :
          /\ anchor' = a
          /\ autoUpdateActive' =
                SetupPositionActive(a, containerDivRef, floatingCleanUp,
                                    autoUpdateActive)
          /\ floatingCleanUp' =
                SetupPositionCleanUp(a, containerDivRef, floatingCleanUp)
          /\ last' = Handled("componentDidUpdate", a)
    /\ calls' = << <<"setupPosition">> >>
    /\ UNCHANGED <<unit, suspended, popPhase, onClickOutside,
                   onMousedownOutside, clickListener, mousedownListener,
                   containerDivRef, computing, position>>
    /\ UNCHANGED <<avatarVars, dialogVars, pushPull>>

\* componentWillUnmount, after which React clears the ref of the div.
UnmountListeners(registered) == FALSE

UnmountAutoUpdate(active) == active

componentWillUnmount ==
    /\ unit = "Popover"
    /\ popPhase = "mounted"
    /\ popPhase' = "unmounted"
    /\ clickListener' = UnmountListeners(clickListener)
    /\ mousedownListener' = UnmountListeners(mousedownListener)
    /\ autoUpdateActive' = UnmountAutoUpdate(autoUpdateActive)
    /\ containerDivRef' = "null"
    /\ calls' = << <<"removeEventListener", "click">>,
                   <<"removeEventListener", "mousedown">> >>
    /\ last' = Handled("componentWillUnmount", "")
    /\ UNCHANGED <<unit, suspended, anchor, onClickOutside, onMousedownOutside,
                   floatingCleanUp, computing, position>>
    /\ UNCHANGED <<avatarVars, dialogVars, pushPull>>

OnDocumentClickCalls(ref, target, handlerProp) ==
    IF CallsOutside(ref, target, handlerProp)
    THEN << <<"onClickOutside">> >> ELSE <<>>

OnDocumentMouseDownCalls(ref, target, handlerProp) ==
    IF CallsOutside(ref, target, handlerProp)
    THEN << <<"onMousedownOutside">> >> ELSE <<>>

\* A click anywhere in the document, while the listener is registered.
onDocumentClick ==
    /\ unit = "Popover"
    /\ clickListener
    /\ \E target \in Targets :
          /\ calls' = OnDocumentClickCalls(containerDivRef, target,
                                           onClickOutside)
          /\ last' = Handled("onDocumentClick", target)
    /\ UNCHANGED <<unit, suspended, popoverVars, avatarVars, dialogVars,
                   pushPull>>

onDocumentMouseDown ==
    /\ unit = "Popover"
    /\ mousedownListener
    /\ \E target \in Targets :
          /\ calls' = OnDocumentMouseDownCalls(containerDivRef, target,
                                               onMousedownOutside)
          /\ last' = Handled("onDocumentMouseDown", target)
    /\ UNCHANGED <<unit, suspended, popoverVars, avatarVars, dialogVars,
                   pushPull>>

\* Escape deactivates the focus trap, whose onDeactivate is onClickOutside.
onDeactivate ==
    /\ unit = "Popover"
    /\ popPhase = "mounted"
    /\ calls' = IF onClickOutside THEN << <<"onClickOutside">> >> ELSE <<>>
    /\ last' = Handled("onDeactivate", "Escape")
    /\ UNCHANGED <<unit, suspended, popoverVars, avatarVars, dialogVars,
                   pushPull>>

\* autoUpdate calls updatePosition for as long as its subscription lives.
\* updatePosition returns at once without an anchor or a mounted div, and
\* otherwise awaits computePosition for the anchor it read.
updatePosition ==
    /\ unit = "Popover"
    /\ autoUpdateActive
    /\ Len(computing) < MaxPending
    /\ IF NoAnchor(anchor, containerDivRef)
       THEN /\ calls' = <<>>
            /\ UNCHANGED <<computing, suspended>>
       ELSE /\ calls' = << <<"computePosition", anchor>> >>
            /\ computing' = Append(computing, anchor)
            /\ suspended' = suspended \cup {"updatePosition"}
    /\ last' = Handled("updatePosition", popPhase)
    /\ UNCHANGED <<unit, popPhase, anchor, onClickOutside, onMousedownOutside,
                   clickListener, mousedownListener, containerDivRef,
                   floatingCleanUp, autoUpdateActive, position>>
    /\ UNCHANGED <<avatarVars, dialogVars, pushPull>>

RemoveAt(seq, i) == SubSeq(seq, 1, i - 1) \o SubSeq(seq, i + 1, Len(seq))

\* computePosition resolves and updatePosition goes on to setState, which
\* React ignores for a component that is no longer mounted.
computePositionResolves ==
    /\ unit = "Popover"
    /\ \E i \in 1..Len(computing) :
          /\ position' = IF popPhase = "mounted" THEN computing[i]
                         ELSE position
          /\ calls' = << <<"setState", "position", computing[i]>> >>
          /\ computing' = RemoveAt(computing, i)
          /\ suspended' = IF Len(computing) = 1
                          THEN suspended \ {"updatePosition"} ELSE suspended
    /\ last' = Handled("updatePosition.resumed", popPhase)
    /\ UNCHANGED <<unit, popPhase, anchor, onClickOutside, onMousedownOutside,
                   clickListener, mousedownListener, containerDivRef,
                   floatingCleanUp, autoUpdateActive>>
    /\ UNCHANGED <<avatarVars, dialogVars, pushPull>>

PopoverNext ==
    \/ componentDidMount
    \/ componentDidUpdate
    \/ componentWillUnmount
    \/ onDocumentClick
    \/ onDocumentMouseDown
    \/ onDeactivate
    \/ updatePosition
    \/ computePositionResolves

(***************************************************************************)
(* DeleteRemoteBranch                                                      *)
(***************************************************************************)

Repositories == {"repoA", "repoB"}

Branches == {"origin/feature", "origin/fix"}

NoProps == [repository |-> "", branch |-> ""]

DialogInit ==
    /\ repository \in Repositories
    /\ branch \in Branches
    /\ isDeleting = FALSE
    /\ deletePc = "idle"
    /\ captured = NoProps

DialogIdle ==
    /\ repository = "repoA"
    /\ branch = "origin/feature"
    /\ isDeleting = FALSE
    /\ deletePc = "idle"
    /\ captured = NoProps

\* render(): the dialog is disabled and shows its spinner while isDeleting.
DialogRender(deleting) == [disabled |-> deleting, loading |-> deleting]

\* deleteBranch up to its await: submit is offered by an enabled dialog.
DeleteBranchCalls(repo, br) ==
    << <<"setState", "isDeleting">>, <<"deleteRemoteBranch", repo, br>> >>

deleteBranch ==
    /\ unit = "DeleteRemoteBranch"
    /\ ~DialogRender(isDeleting).disabled
    /\ deletePc = "idle"
    /\ isDeleting' = TRUE
    /\ captured' = [repository |-> repository, branch |-> branch]
    /\ calls' = DeleteBranchCalls(repository, branch)
    /\ deletePc' = "awaiting"
    /\ suspended' = suspended \cup {"deleteBranch"}
    /\ last' = Handled("deleteBranch", "")
    /\ UNCHANGED <<unit, repository, branch>>
    /\ UNCHANGED <<avatarVars, popoverVars, pushPull>>

\* The rest of deleteBranch, run when the awaited promise settles: a
\* rejection is thrown at the await and ends the handler there.
\* Variant: the dialog is dismissed before onDeleted is told.
DeleteBranchResumedCallsDismissFirst(outcome, repo) ==
    IF outcome = "fulfilled"
    THEN << <<"settled", outcome>>, <<"onDismissed">>, <<"onDeleted", repo>> >>
    ELSE << <<"settled", outcome>> >>

DeleteBranchResumedCalls(outcome, repo) ==
    IF outcome = "fulfilled"
    THEN << <<"settled", outcome>>, <<"onDeleted", repo>>, <<"onDismissed">> >>
    ELSE << <<"settled", outcome>> >>

deleteRemoteBranchSettles ==
    /\ unit = "DeleteRemoteBranch"
    /\ deletePc = "awaiting"
    /\ \E outcome \in {"fulfilled", "rejected"} :
          /\ calls' = calls \o DeleteBranchResumedCalls(outcome,
                                                       captured.repository)
          /\ deletePc' = IF outcome = "fulfilled" THEN "returned" ELSE "threw"
          /\ last' = Handled("deleteBranch.resumed", outcome)
    /\ suspended' = suspended \ {"deleteBranch"}
    /\ UNCHANGED <<unit, repository, branch, isDeleting, captured>>
    /\ UNCHANGED <<avatarVars, popoverVars, pushPull>>

\* The parent renders the dialog again with other props.
DialogPropsChange ==
    /\ unit = "DeleteRemoteBranch"
    /\ \/ /\ repository' \in Repositories \ {repository}
          /\ UNCHANGED branch
       \/ /\ branch' \in Branches \ {branch}
          /\ UNCHANGED repository
    /\ UNCHANGED <<unit, last, calls, suspended, isDeleting, deletePc,
                   captured>>
    /\ UNCHANGED <<avatarVars, popoverVars, pushPull>>

DialogNext ==
    \/ deleteBranch
    \/ deleteRemoteBranchSettles
    \/ DialogPropsChange

(***************************************************************************)
(* CommitMessageAvatar                                                     *)
(***************************************************************************)

CommitMessageWarningType == {"none", "misattribution", "disallowedEmail"}

\* Non-empty addresses; "" is the empty string a select element reports
\* when no option is selected.
AccountEmails == {"a@example.com", "b@example.com"}

Undefined == "undefined"

OpenPopoverUpdater(prevOpen) == IF prevOpen = FALSE THEN TRUE ELSE prevOpen

ClosePopoverUpdater(prevOpen) == IF prevOpen THEN FALSE ELSE prevOpen

\* render(): which of the two avatar elements is shown, and its aria label.
AriaLabel(wt) ==
    CASE wt = "none" -> "Show Commit Author Details"
      [] wt = "misattribution" -> "Commit may be misattributed. View warning."
      [] wt = "disallowedEmail" -> "Email address may be disallowed. View warning."

\* Variant: the two headers exchanged.
PopoverHeaderSwapped(wt) ==
    CASE wt = "misattribution" -> "This email address may be disallowed"
      [] wt = "disallowedEmail" -> "This commit will be misattributed"
      [] OTHER -> ""

PopoverHeader(wt) ==
    CASE wt = "misattribution" -> "This commit will be misattributed"
      [] wt = "disallowedEmail" -> "This email address may be disallowed"
      [] OTHER -> ""

RenderPopover(wt, selected) ==
    [header |-> PopoverHeader(wt),
     misattributionRow |-> (wt = "misattribution"),
     disallowedEmailRow |-> (wt = "disallowedEmail"),
     selectValue |-> selected]

AvatarRender(wt, open, selected) ==
    [avatarButton |-> (wt # "none"),
     warningBadge |-> (wt # "none"),
     toggletip |-> (wt = "none"),
     ariaLabel |-> AriaLabel(wt),
     popoverShown |-> open,
     popover |-> RenderPopover(wt, selected)]

AvatarInit ==
    /\ warningType \in CommitMessageWarningType
    /\ email \in AccountEmails \cup {Undefined}
    /\ preferredAccountEmail \in AccountEmails
    /\ isPopoverOpen = FALSE
    /\ accountEmail = preferredAccountEmail
    /\ updateCall = "none"
    /\ ctorPreferredEmail = preferredAccountEmail
    /\ lastSelection = "none"
    /\ lastValidSelection = "none"
    /\ clicks = 0

AvatarIdle ==
    /\ warningType = "none"
    /\ email = Undefined
    /\ preferredAccountEmail = "a@example.com"
    /\ isPopoverOpen = FALSE
    /\ accountEmail = "a@example.com"
    /\ updateCall = "none"
    /\ ctorPreferredEmail = "a@example.com"
    /\ lastSelection = "none"
    /\ lastValidSelection = "none"
    /\ clicks = 0

\* onAvatarClick: the state it leaves and the calls it makes.
\* Variant: a click opens the popover whatever its state.
OnAvatarClickAlwaysOpens(wt, open) ==
    IF wt = "none" THEN open ELSE OpenPopoverUpdater(open)

OnAvatarClickOpen(wt, open) ==
    IF wt = "none" THEN open
    ELSE IF open THEN ClosePopoverUpdater(open) ELSE OpenPopoverUpdater(open)

OnAvatarClickCalls(wt, open) ==
    IF wt = "none" THEN <<>>
    ELSE IF open THEN << <<"preventDefault">>, <<"closePopover">> >>
         ELSE << <<"preventDefault">>, <<"openPopover">> >>

onAvatarClick ==
    /\ unit = "CommitMessageAvatar"
    /\ clicks' = IF clicks < MaxClicks THEN clicks + 1 ELSE MaxClicks + 1
    /\ AvatarRender(warningType, isPopoverOpen, accountEmail).avatarButton
    /\ isPopoverOpen' = OnAvatarClickOpen(warningType, isPopoverOpen)
    /\ calls' = OnAvatarClickCalls(warningType, isPopoverOpen)
    /\ last' = Handled("onAvatarClick", "")
    /\ UNCHANGED <<popoverVars, dialogVars, pushPull>>
    /\ UNCHANGED <<unit, suspended, warningType, email, preferredAccountEmail,
                   accountEmail, updateCall, ctorPreferredEmail, lastSelection,
                   lastValidSelection>>

onRepositorySettingsClick ==
    /\ unit = "CommitMessageAvatar"
    /\ clicks' = MaxClicks + 1
    /\ isPopoverOpen
    /\ isPopoverOpen' = ClosePopoverUpdater(isPopoverOpen)
    /\ calls' = << <<"closePopover">>, <<"onOpenRepositorySettings">> >>
    /\ last' = Handled("onRepositorySettingsClick", "")
    /\ UNCHANGED <<popoverVars, dialogVars, pushPull>>
    /\ UNCHANGED <<unit, suspended, warningType, email, preferredAccountEmail,
                   accountEmail, updateCall, ctorPreferredEmail, lastSelection,
                   lastValidSelection>>

onIgnoreClick ==
    /\ unit = "CommitMessageAvatar"
    /\ clicks' = MaxClicks + 1
    /\ isPopoverOpen
    /\ isPopoverOpen' = ClosePopoverUpdater(isPopoverOpen)
    /\ calls' = << <<"preventDefault">>, <<"closePopover">> >>
    /\ last' = Handled("onIgnoreClick", "")
    /\ UNCHANGED <<popoverVars, dialogVars, pushPull>>
    /\ UNCHANGED <<unit, suspended, warningType, email, preferredAccountEmail,
                   accountEmail, updateCall, ctorPreferredEmail, lastSelection,
                   lastValidSelection>>

\* onUpdateEmailClick is declared async and holds no await: it runs to its
\* end in the click's own turn.  onUpdateEmail returns void; the update it
\* starts in the parent settles later (UpdateEmailSettles).
\* Variant: the update is requested before the popover is closed.
OnUpdateEmailClickCallsUpdateFirst(configured, selected) ==
    << <<"preventDefault">> >>
        \o (IF configured # selected THEN << <<"onUpdateEmail", selected>> >>
            ELSE <<>>)
        \o << <<"closePopover">> >>

\* Variant: the update is requested without comparing the two emails.
OnUpdateEmailClickCallsAlways(configured, selected) ==
    << <<"preventDefault">>, <<"closePopover">>,
       <<"onUpdateEmail", selected>> >>

OnUpdateEmailClickCalls(configured, selected) ==
    << <<"preventDefault">>, <<"closePopover">> >>
        \o (IF configured # selected THEN << <<"onUpdateEmail", selected>> >>
            ELSE <<>>)

\* Variant: the handler awaits the update it requested.
OnUpdateEmailClickAwaits(s) == s \cup {"onUpdateEmailClick"}

OnUpdateEmailClickSuspended(s) == s

onUpdateEmailClick ==
    /\ unit = "CommitMessageAvatar"
    /\ clicks' = MaxClicks + 1
    /\ isPopoverOpen
    /\ isPopoverOpen' = ClosePopoverUpdater(isPopoverOpen)
    /\ calls' = OnUpdateEmailClickCalls(email, accountEmail)
    /\ updateCall' = IF email # accountEmail THEN "pending" ELSE updateCall
    /\ suspended' = OnUpdateEmailClickSuspended(suspended)
    /\ last' = Handled("onUpdateEmailClick", "")
    /\ UNCHANGED <<popoverVars, dialogVars, pushPull>>
    /\ UNCHANGED <<popoverVars, dialogVars, pushPull>>
    /\ UNCHANGED <<unit, warningType, email, preferredAccountEmail,
                   accountEmail, ctorPreferredEmail, lastSelection,
                   lastValidSelection>>

UpdateEmailSettles ==
    /\ unit = "CommitMessageAvatar"
    /\ UNCHANGED clicks
    /\ updateCall = "pending"
    /\ updateCall' = "settled"
    /\ UNCHANGED <<popoverVars, dialogVars, pushPull>>
    /\ UNCHANGED <<unit, last, calls, suspended, warningType, email,
                   preferredAccountEmail, isPopoverOpen, accountEmail,
                   ctorPreferredEmail, lastSelection,
                   lastValidSelection>>

\* onSelectedGitHubEmailChange: an empty value is ignored.
\* Variant: the value is stored without the test for an empty value.
OnSelectedGitHubEmailChangeUnguarded(selected, value) == value

OnSelectedGitHubEmailChange(selected, value) ==
    IF value # "" THEN value ELSE selected

onSelectedGitHubEmailChange ==
    /\ unit = "CommitMessageAvatar"
    /\ clicks' = MaxClicks + 1
    /\ isPopoverOpen
    /\ \E value \in AccountEmails \cup {""} :
          /\ accountEmail' = OnSelectedGitHubEmailChange(accountEmail, value)
          /\ lastSelection' = value
          /\ lastValidSelection' = IF value # "" THEN value
                                   ELSE lastValidSelection
          /\ last' = Handled("onSelectedGitHubEmailChange", value)
    /\ calls' = <<>>
    /\ UNCHANGED <<popoverVars, dialogVars, pushPull>>
    /\ UNCHANGED <<unit, suspended, warningType, email, preferredAccountEmail,
                   isPopoverOpen, updateCall, ctorPreferredEmail>>

\* renderPopover() mounts a Popover with onClickOutside = closePopover and
\* no anchor: its document click listener and its focus trap close the
\* popover.
OnClickOutsideOpen(target, open) ==
    IF CallsOutside("div", target, TRUE) THEN ClosePopoverUpdater(open)
    ELSE open

onClickOutside_closePopover ==
    /\ unit = "CommitMessageAvatar"
    /\ clicks' = MaxClicks + 1
    /\ isPopoverOpen
    /\ \E target \in Targets :
          /\ isPopoverOpen' = OnClickOutsideOpen(target, isPopoverOpen)
          /\ calls' = IF isPopoverOpen' # isPopoverOpen
                      THEN << <<"closePopover">> >> ELSE <<>>
          /\ last' = Handled("Popover.onDocumentClick", target)
    /\ UNCHANGED <<popoverVars, dialogVars, pushPull>>
    /\ UNCHANGED <<unit, suspended, warningType, email, preferredAccountEmail,
                   accountEmail, updateCall, ctorPreferredEmail, lastSelection,
                   lastValidSelection>>

onDeactivate_closePopover ==
    /\ unit = "CommitMessageAvatar"
    /\ clicks' = MaxClicks + 1
    /\ isPopoverOpen
    /\ isPopoverOpen' = ClosePopoverUpdater(isPopoverOpen)
    /\ calls' = << <<"closePopover">> >>
    /\ last' = Handled("Popover.onDeactivate", "Escape")
    /\ UNCHANGED <<popoverVars, dialogVars, pushPull>>
    /\ UNCHANGED <<unit, suspended, warningType, email, preferredAccountEmail,
                   accountEmail, updateCall, ctorPreferredEmail, lastSelection,
                   lastValidSelection>>

\* The parent renders the component again with other props, one at a time.
AvatarPropsChange ==
    /\ unit = "CommitMessageAvatar"
    /\ UNCHANGED clicks
    /\ \/ /\ warningType' \in CommitMessageWarningType \ {warningType}
          /\ UNCHANGED <<email, preferredAccountEmail>>
       \/ /\ email' \in (AccountEmails \cup {Undefined}) \ {email}
          /\ UNCHANGED <<warningType, preferredAccountEmail>>
       \/ /\ preferredAccountEmail' \in AccountEmails \ {preferredAccountEmail}
          /\ UNCHANGED <<warningType, email>>
    /\ UNCHANGED <<popoverVars, dialogVars, pushPull>>
    /\ UNCHANGED <<unit, last, calls, suspended, isPopoverOpen, accountEmail,
                   updateCall, ctorPreferredEmail, lastSelection,
                   lastValidSelection>>

AvatarNext ==
    \/ onAvatarClick
    \/ onRepositorySettingsClick
    \/ onIgnoreClick
    \/ onUpdateEmailClick
    \/ UpdateEmailSettles
    \/ onSelectedGitHubEmailChange
    \/ onClickOutside_closePopover
    \/ onDeactivate_closePopover
    \/ AvatarPropsChange

(***************************************************************************)
(* PushPullButton                                                          *)
(***************************************************************************)

TipState == {"Valid", "Unborn", "Detached"}

Counts == 0..MaxCommits

\* aheadBehind: null (no upstream) or the two counts.
NullAheadBehind == [isNull |-> TRUE, ahead |-> 0, behind |-> 0]

AheadBehinds ==
    {NullAheadBehind} \cup
    {[isNull |-> FALSE, ahead |-> a, behind |-> b] : a \in Counts, b \in Counts}

PropValues(f) ==
    CASE f = "progress" -> {"null", "progress"}
      [] f = "remoteName" -> {"null", "origin"}
      [] f = "tipState" -> TipState
      [] f = "aheadBehind" -> AheadBehinds
      [] f = "numTagsToPush" -> 0..MaxTags
      [] f = "isForcePush" -> BOOLEAN
      [] f = "networkActionInProgress" -> BOOLEAN
      [] f = "isDropdownOpen" -> BOOLEAN
      [] f = "repository" -> {"repoA", "repoB"}

PushPullProps ==
    [progress : PropValues("progress"),
     remoteName : PropValues("remoteName"),
     tipState : PropValues("tipState"),
     aheadBehind : PropValues("aheadBehind"),
     numTagsToPush : PropValues("numTagsToPush"),
     isForcePush : PropValues("isForcePush"),
     networkActionInProgress : PropValues("networkActionInProgress"),
     isDropdownOpen : PropValues("isDropdownOpen"),
     repository : PropValues("repository")]

PushPullInit == pushPull \in PushPullProps

PushPullIdle ==
    pushPull = [progress |-> "null", remoteName |-> "null",
                tipState |-> "Valid", aheadBehind |-> NullAheadBehind,
                numTagsToPush |-> 0, isForcePush |-> FALSE,
                networkActionInProgress |-> FALSE, isDropdownOpen |-> FALSE,
                repository |-> "repoA"]

\* renderAheadBehind: null, or the spans of the badge with their figures.
\* Variant: the tags to push are left out of the up-arrow figure.
AheadFigureWithoutTags(ahead, numTagsToPush) == ahead

AheadFigure(ahead, numTagsToPush) == ahead + numTagsToPush

RenderAheadBehind(aheadBehind, numTagsToPush) ==
    LET ahead == aheadBehind.ahead
        behind == aheadBehind.behind
    IN  IF ahead = 0 /\ behind = 0 /\ numTagsToPush = 0
        THEN [isNull |-> TRUE, content |-> <<>>]
        ELSE [isNull |-> FALSE,
              content |->
                 (IF ahead > 0 \/ numTagsToPush > 0
                  THEN <<[key |-> "ahead",
                          figure |-> AheadFigure(ahead, numTagsToPush)]>>
                  ELSE <<>>)
                 \o (IF behind > 0
                     THEN <<[key |-> "behind", figure |-> behind]>>
                     ELSE <<>>)]

NoBadge == [isNull |-> TRUE, content |-> <<>>]

\* The button variants: title, whether disabled, the handler of a click,
\* the dropdown's items, the badge.
Button(variant, disabled, onClick, items, badge) ==
    [variant |-> variant, disabled |-> disabled, onClick |-> onClick,
     dropdownItems |-> items, badge |-> badge]

\* The button each variant method returns.
\* Variant: the progress button left enabled, fetching on click.
progressButtonEnabled == Button("progress", FALSE, "fetch", <<>>, NoBadge)

progressButton == Button("progress", TRUE, "none", <<>>, NoBadge)

\* progressButton: the icon spins while a network action is in progress.
ProgressIconClassName(networkActionInProgress) ==
    IF networkActionInProgress THEN "spin" ELSE ""

publishRepositoryButton ==
    Button("publishRepository", FALSE, "push", <<>>, NoBadge)

\* Variant: the button of an unborn HEAD left enabled, publishing on click.
unbornRepositoryButtonEnabled ==
    Button("unbornRepository", FALSE, "push", <<>>, NoBadge)

unbornRepositoryButton ==
    Button("unbornRepository", TRUE, "none", <<>>, NoBadge)

detachedHeadButton == Button("detachedHead", TRUE, "none", <<>>, NoBadge)

publishBranchButton ==
    Button("publishBranch", FALSE, "push", <<"fetch">>, NoBadge)

fetchButton == Button("fetch", FALSE, "fetch", <<>>, NoBadge)

forcePushButton(badge) ==
    Button("forcePush", FALSE, "forcePushWithLease", <<"fetch">>, badge)

pullButton(badge) ==
    Button("pull", FALSE, "pull", <<"fetch", "force-push">>, badge)

\* Variant: the push button's dropdown also lists the force-push item.
pushButtonWithForcePush(badge) ==
    Button("push", FALSE, "push", <<"fetch", "force-push">>, badge)

pushButton(badge) == Button("push", FALSE, "push", <<"fetch">>, badge)

\* Variant: tipState is tested before remoteName.
RenderButtonTipStateFirst(p) ==
    IF p.progress # "null" THEN progressButton
    ELSE IF p.tipState = "Unborn" THEN unbornRepositoryButton
    ELSE IF p.tipState = "Detached" THEN detachedHeadButton
    ELSE IF p.remoteName = "null" THEN publishRepositoryButton
    ELSE IF p.aheadBehind.isNull THEN publishBranchButton
    ELSE IF p.aheadBehind.ahead = 0 /\ p.aheadBehind.behind = 0
            /\ p.numTagsToPush = 0
    THEN fetchButton
    ELSE IF p.isForcePush
    THEN forcePushButton(RenderAheadBehind(p.aheadBehind, p.numTagsToPush))
    ELSE IF p.aheadBehind.behind > 0
    THEN pullButton(RenderAheadBehind(p.aheadBehind, p.numTagsToPush))
    ELSE pushButton(RenderAheadBehind(p.aheadBehind, p.numTagsToPush))

RenderButton(p) ==
    IF p.progress # "null" THEN progressButton
    ELSE IF p.remoteName = "null" THEN publishRepositoryButton
    ELSE IF p.tipState = "Unborn" THEN unbornRepositoryButton
    ELSE IF p.tipState = "Detached" THEN detachedHeadButton
    ELSE IF p.aheadBehind.isNull THEN publishBranchButton
    ELSE IF p.aheadBehind.ahead = 0 /\ p.aheadBehind.behind = 0
            /\ p.numTagsToPush = 0
    THEN fetchButton
    ELSE IF p.isForcePush
    THEN forcePushButton(RenderAheadBehind(p.aheadBehind, p.numTagsToPush))
    ELSE IF p.aheadBehind.behind > 0
    THEN pullButton(RenderAheadBehind(p.aheadBehind, p.numTagsToPush))
    ELSE pushButton(RenderAheadBehind(p.aheadBehind, p.numTagsToPush))

\* getDropdownItemWithType: the handler a dropdown item runs.
DropdownItemAction(type) ==
    CASE type = "fetch" -> "fetch"
      [] type = "force-push" -> "forcePushWithLease"

Range(seq) == {seq[i] : i \in DOMAIN seq}

\* How a handler can be reached in the current rendering: from the main
\* button, or from an item of the open dropdown.
Offered(p, handler) ==
    LET b == RenderButton(p)
    IN  {via \in {"button", "dropdown"} :
            \/ /\ via = "button"
               /\ ~b.disabled
               /\ b.onClick = handler
            \/ /\ via = "dropdown"
               /\ ~b.disabled
               /\ p.isDropdownOpen
               /\ \E t \in Range(b.dropdownItems) :
                     DropdownItemAction(t) = handler}

CloseDropdownCall == <<"closeFoldout", "PushPull">>

\* Variant: the repository operation is issued before the foldout closes.
PushCallsOperationFirst(repo) == << <<"push", repo>>, CloseDropdownCall>>

PushCalls(repo) == <<CloseDropdownCall, <<"push", repo>> >>

ForcePushWithLeaseCalls(repo) ==
    <<CloseDropdownCall, <<"confirmOrForcePush", repo>> >>

PullCalls(repo) == <<CloseDropdownCall, <<"pull", repo>> >>

FetchCalls(repo) ==
    <<CloseDropdownCall, <<"fetch", repo, "UserInitiatedTask">> >>

push ==
    /\ unit = "PushPullButton"
    /\ \E via \in Offered(pushPull, "push") : last' = Handled("push", via)
    /\ calls' = PushCalls(pushPull.repository)
    /\ UNCHANGED <<unit, suspended, pushPull, avatarVars, popoverVars,
                   dialogVars>>

forcePushWithLease ==
    /\ unit = "PushPullButton"
    /\ \E via \in Offered(pushPull, "forcePushWithLease") :
          last' = Handled("forcePushWithLease", via)
    /\ calls' = ForcePushWithLeaseCalls(pushPull.repository)
    /\ UNCHANGED <<unit, suspended, pushPull, avatarVars, popoverVars,
                   dialogVars>>

pull ==
    /\ unit = "PushPullButton"
    /\ \E via \in Offered(pushPull, "pull") : last' = Handled("pull", via)
    /\ calls' = PullCalls(pushPull.repository)
    /\ UNCHANGED <<unit, suspended, pushPull, avatarVars, popoverVars,
                   dialogVars>>

fetch ==
    /\ unit = "PushPullButton"
    /\ \E via \in Offered(pushPull, "fetch") : last' = Handled("fetch", via)
    /\ calls' = FetchCalls(pushPull.repository)
    /\ UNCHANGED <<unit, suspended, pushPull, avatarVars, popoverVars,
                   dialogVars>>

\* The parent renders the button again with one prop changed.
PushPullPropsChange ==
    /\ unit = "PushPullButton"
    /\ \E f \in DOMAIN pushPull :
          \E v \in PropValues(f) \ {pushPull[f]} :
             pushPull' = [pushPull EXCEPT ![f] = v]
    /\ UNCHANGED <<unit, last, calls, suspended, avatarVars, popoverVars,
                   dialogVars>>

PushPullNext ==
    \/ push
    \/ forcePushWithLease
    \/ pull
    \/ fetch
    \/ PushPullPropsChange

Init ==
    /\ unit \in Units
    /\ last = NoHandler
    /\ calls = <<>>
    /\ suspended = {}
    /\ IF unit = "CommitMessageAvatar" THEN AvatarInit ELSE AvatarIdle
    /\ IF unit = "Popover" THEN PopoverInit ELSE PopoverIdle
    /\ IF unit = "DeleteRemoteBranch" THEN DialogInit ELSE DialogIdle
    /\ IF unit = "PushPullButton" THEN PushPullInit ELSE PushPullIdle

Next == AvatarNext \/ PopoverNext \/ DialogNext \/ PushPullNext

Spec == Init /\ [][Next]_vars

(***************************************************************************)
(* Properties                                                              *)
(***************************************************************************)

Made(name) == \E i \in DOMAIN calls : calls[i][1] = name

Before(first, second) ==
    \A j \in DOMAIN calls :
       calls[j][1] = second => \E i \in 1..(j - 1) : calls[i][1] = first

\* C1 (as stated): once the 'Update email' click has requested the update
\* and closed the popover, the update has already completed.
C1_ClosedOnlyAfterUpdateSettled ==
    (last.h = "onUpdateEmailClick" /\ Made("onUpdateEmail") /\ ~isPopoverOpen)
        => updateCall = "settled"

\* C1 (amended): the 'Update email' click closes the popover in its own
\* turn without waiting for anything: after it the popover is closed, the
\* handler is not suspended, it requested at most one update, for the
\* selected address, after asking for the close, and that update is under
\* way or done.
C1_ClosesWithoutWaiting ==
    last.h = "onUpdateEmailClick" =>
        /\ ~isPopoverOpen
        /\ "onUpdateEmailClick" \notin suspended
        /\ Made("closePopover")
        /\ Before("closePopover", "onUpdateEmail")
        /\ Cardinality({i \in DOMAIN calls : calls[i][1] = "onUpdateEmail"}) <= 1
        /\ Made("onUpdateEmail") =>
              /\ calls[Len(calls)] = <<"onUpdateEmail", accountEmail>>
              /\ updateCall \in {"pending", "settled"}

C1_Witness ==
    /\ last.h = "onUpdateEmailClick"
    /\ Made("onUpdateEmail")
    /\ ~isPopoverOpen
    /\ updateCall = "pending"

\* C2: once deleteBranch has ended after the dispatcher call settled,
\* fulfilled or rejected, it has called onDismissed.
C2_DismissedAfterSettle ==
    deletePc \in {"returned", "threw"} => Made("onDismissed")

\* C3: on a submit whose dispatcher call is fulfilled: up to the await the
\* handler has set isDeleting and called deleteRemoteBranch with the
\* dialog's repository and branch and nothing else; on resumption it adds,
\* in this order, onDeleted with that repository, once, and onDismissed, once.
C3_DeleteOrder ==
    [][/\ (deletePc = "idle" /\ deletePc' = "awaiting") =>
             /\ isDeleting'
             /\ calls' = << <<"setState", "isDeleting">>,
                            <<"deleteRemoteBranch", repository, branch>> >>
       /\ (deletePc = "awaiting" /\ deletePc' = "returned") =>
             calls' = << <<"setState", "isDeleting">>,
                         calls[2],
                         <<"settled", "fulfilled">>,
                         <<"onDeleted", calls[2][2]>>,
                         <<"onDismissed">> >>
       /\ deletePc' = "awaiting" =>
             ~(\E i \in DOMAIN calls' :
                  calls'[i][1] \in {"onDeleted", "onDismissed"})]_vars

C3_Witness ==
    /\ deletePc = "returned"
    /\ repository # captured.repository
    /\ calls = << <<"setState", "isDeleting">>,
                  <<"deleteRemoteBranch", captured.repository, captured.branch>>,
                  <<"settled", "fulfilled">>,
                  <<"onDeleted", captured.repository>>,
                  <<"onDismissed">> >>

\* C4 (as stated): no handler other than the update-email handler is ever
\* suspended with its work unfinished.
C4_OnlyUpdateEmailSuspends == suspended \subseteq {"onUpdateEmailClick"}

\* C4 (amended): the handlers that suspend are deleteBranch, parked at its
\* await from the submit until the dispatcher call settles, and
\* updatePosition, parked while a computePosition is outstanding; every
\* other handler, the update-email handler included, ends in its own turn.
C4_SuspendedHandlers ==
    /\ suspended \subseteq {"deleteBranch", "updatePosition"}
    /\ "deleteBranch" \in suspended <=> deletePc = "awaiting"
    /\ "updatePosition" \in suspended <=> computing # <<>>

C4_Witness ==
    /\ last.h = "deleteBranch"
    /\ deletePc = "awaiting"
    /\ suspended = {"deleteBranch"}
    /\ repository # captured.repository

OutsideCalls(handler, name, target, provided) ==
    last.h = handler =>
        calls = IF target /\ provided THEN << <<name>> >> ELSE <<>>

\* C5 (as stated): a document click (mousedown) calls onClickOutside
\* (onMousedownOutside), when provided, exactly when its target lies outside
\* the popover's own element.
C5_OutsideOwnElement ==
    unit = "Popover" =>
        /\ OutsideCalls("onDocumentClick", "onClickOutside",
                        last.arg # "inPopover", onClickOutside)
        /\ OutsideCalls("onDocumentMouseDown", "onMousedownOutside",
                        last.arg # "inPopover", onMousedownOutside)

\* C5 (amended): a document click (mousedown) calls onClickOutside
\* (onMousedownOutside), when provided, exactly once when its target is a
\* node outside the parent element of the popover, and not at all when the
\* target lies in that parent element, in the popover or beside it, or is
\* no node.
C5_OutsideParentElement ==
    unit = "Popover" =>
        /\ OutsideCalls("onDocumentClick", "onClickOutside",
                        last.arg = "outsideParent", onClickOutside)
        /\ OutsideCalls("onDocumentMouseDown", "onMousedownOutside",
                        last.arg = "outsideParent", onMousedownOutside)

C5_Witness ==
    /\ unit = "Popover"
    /\ last = Handled("onDocumentClick", "outsideParent")
    /\ calls = << <<"onClickOutside">> >>

\* C6: after unmount nothing the popover registered is left: no document
\* listener, no auto-update subscription, and updatePosition does not run.
C6_UnmountDiscardsAll ==
    popPhase = "unmounted" =>
        /\ ~clickListener
        /\ ~mousedownListener
        /\ ~autoUpdateActive
        /\ ~(last.h = "updatePosition" /\ last.arg = "unmounted")

ExpectedOperation(handler, repo) ==
    CASE handler = "push" -> <<"push", repo>>
      [] handler = "pull" -> <<"pull", repo>>
      [] handler = "fetch" -> <<"fetch", repo, "UserInitiatedTask">>
      [] handler = "forcePushWithLease" -> <<"confirmOrForcePush", repo>>

\* C7: every run of push, pull, fetch or forcePushWithLease makes exactly
\* two calls: closeFoldout(PushPull) and then its one repository operation
\* on the current repository.
C7_CloseThenOneOperation ==
    [][(unit = "PushPullButton" /\ <<last, calls>>' # <<last, calls>>) =>
          calls' = << <<"closeFoldout", "PushPull">>,
                      ExpectedOperation(last'.h, pushPull.repository) >>]_vars

C7_Witness ==
    /\ last = Handled("forcePushWithLease", "dropdown")
    /\ calls = << <<"closeFoldout", "PushPull">>,
                  <<"confirmOrForcePush", "repoB">> >>

Figures(badge, key) ==
    {badge.content[i].figure :
        i \in {j \in DOMAIN badge.content : badge.content[j].key = key}}

\* C8 (as stated): the up-arrow figure of the badge is ahead and the
\* down-arrow figure is behind.
C8_FiguresAreAheadAndBehind ==
    unit = "PushPullButton" =>
        LET badge == RenderButton(pushPull).badge
        IN  /\ Figures(badge, "ahead") \subseteq {pushPull.aheadBehind.ahead}
            /\ Figures(badge, "behind") \subseteq {pushPull.aheadBehind.behind}

\* C8 (amended): the up-arrow figure is ahead + numTagsToPush, shown when
\* that sum is positive; the down-arrow figure is behind, shown when behind
\* is positive; there is no badge when all three are zero; the push, pull
\* and force-push buttons carry this badge.
C8_BadgeFigures ==
    (unit = "PushPullButton" /\ ~pushPull.aheadBehind.isNull) =>
        LET ahead == pushPull.aheadBehind.ahead
            behind == pushPull.aheadBehind.behind
            tags == pushPull.numTagsToPush
            badge == RenderAheadBehind(pushPull.aheadBehind, tags)
            button == RenderButton(pushPull)
        IN  /\ badge.isNull <=> (ahead = 0 /\ behind = 0 /\ tags = 0)
            /\ Figures(badge, "ahead") =
                  IF ahead + tags > 0 THEN {ahead + tags} ELSE {}
            /\ Figures(badge, "behind") = IF behind > 0 THEN {behind} ELSE {}
            /\ Len(badge.content) =
                  (IF ahead + tags > 0 THEN 1 ELSE 0)
                  + (IF behind > 0 THEN 1 ELSE 0)
            /\ button.variant \in {"push", "pull", "forcePush"} =>
                  button.badge = badge

C8_Witness ==
    /\ unit = "PushPullButton"
    /\ last = Handled("push", "button")
    /\ RenderButton(pushPull).variant = "push"
    /\ pushPull.aheadBehind.ahead = 1
    /\ pushPull.numTagsToPush = 2
    /\ RenderButton(pushPull).badge.content = <<[key |-> "ahead", figure |-> 3]>>

\* C9: with warningType 'misattribution' or 'disallowedEmail' the avatar
\* button with its warning badge is rendered and an open popover carries
\* that warning's header; with 'none' there is no warning badge.
C9_BadgeAndHeader ==
    unit = "CommitMessageAvatar" =>
        LET r == AvatarRender(warningType, isPopoverOpen, accountEmail)
        IN  /\ warningType = "misattribution" =>
                  /\ r.avatarButton /\ r.warningBadge
                  /\ r.popoverShown =>
                        r.popover.header = "This commit will be misattributed"
            /\ warningType = "disallowedEmail" =>
                  /\ r.avatarButton /\ r.warningBadge
                  /\ r.popoverShown =>
                        r.popover.header = "This email address may be disallowed"
            /\ warningType = "none" => ~r.warningBadge /\ ~r.avatarButton

C9_Witness ==
    /\ unit = "CommitMessageAvatar"
    /\ warningType = "disallowedEmail"
    /\ isPopoverOpen
    /\ last.h = "onAvatarClick"

\* C10 (as stated): the selected email is the preferredAccountEmail of the
\* constructor until the first selection-change event and afterwards the
\* value the most recent selection-change event carried.
C10_LatestSelection ==
    unit = "CommitMessageAvatar" =>
        accountEmail = IF lastSelection = "none" THEN ctorPreferredEmail
                       ELSE lastSelection

\* C10 (amended): the selected email is the preferredAccountEmail the
\* component was constructed with until the first selection-change event
\* that carries a non-empty value, and afterwards the value of the most
\* recent such event.
C10_LatestNonEmptySelection ==
    unit = "CommitMessageAvatar" =>
        accountEmail = IF lastValidSelection = "none" THEN ctorPreferredEmail
                       ELSE lastValidSelection

C10_Witness ==
    /\ unit = "CommitMessageAvatar"
    /\ last = Handled("onSelectedGitHubEmailChange", "")
    /\ lastSelection = ""
    /\ lastValidSelection = "b@example.com"
    /\ accountEmail = "b@example.com"
    /\ ctorPreferredEmail = "a@example.com"

Handlers == {"push", "pull", "fetch", "forcePushWithLease"}

NothingOffered(p) == \A h \in Handlers : Offered(p, h) = {}

\* C11 (as stated): with tipState Unborn or Detached the button is disabled
\* and no click reaches push, pull, fetch or force-push, whatever the other
\* props are.
C11_TipStateDisables ==
    (unit = "PushPullButton" /\ pushPull.tipState \in {"Unborn", "Detached"})
        => RenderButton(pushPull).disabled /\ NothingOffered(pushPull)

\* C11 (amended): with tipState Unborn or Detached the button is disabled
\* and no click reaches push, pull, fetch or force-push, provided there is a
\* remote (remoteName is not null) or progress is shown; with no remote and
\* no progress the enabled 'Publish repository' button is rendered whatever
\* tipState is, and its click pushes.
C11_TipStateDisablesWithRemote ==
    (unit = "PushPullButton" /\ pushPull.tipState \in {"Unborn", "Detached"})
        => IF pushPull.remoteName # "null" \/ pushPull.progress # "null"
           THEN RenderButton(pushPull).disabled /\ NothingOffered(pushPull)
           ELSE /\ RenderButton(pushPull).variant = "publishRepository"
                /\ ~RenderButton(pushPull).disabled
                /\ Offered(pushPull, "push") = {"button"}

C11_Witness ==
    /\ unit = "PushPullButton"
    /\ pushPull.tipState = "Unborn"
    /\ pushPull.remoteName = "origin"
    /\ pushPull.progress = "null"
    /\ pushPull.isDropdownOpen
    /\ RenderButton(pushPull).variant = "unbornRepository"
    /\ last.h = "push"

\* C12 (as stated): an element whose click calls dispatcher.confirmOrForcePush
\* (main button or dropdown item) is offered only if isForcePush is true.
C12_ForcePushOnlyWhenRebased ==
    (unit = "PushPullButton" /\ Offered(pushPull, "forcePushWithLease") # {})
        => pushPull.isForcePush

\* C12 (amended): an element whose click calls dispatcher.confirmOrForcePush
\* is offered in exactly two renderings: as the main button of the force-push
\* variant, which requires isForcePush, and as the 'Force push' item of the
\* open dropdown of the pull variant, which requires isForcePush to be false
\* and behind > 0.
C12_ForcePushMainOrPullDropdown ==
    unit = "PushPullButton" =>
        Offered(pushPull, "forcePushWithLease") =
            IF RenderButton(pushPull).variant = "forcePush"
            THEN {"button"}
            ELSE IF RenderButton(pushPull).variant = "pull"
                    /\ pushPull.isDropdownOpen
                    /\ ~pushPull.isForcePush
                    /\ pushPull.aheadBehind.behind > 0
            THEN {"dropdown"}
            ELSE {}

C12_Witness ==
    /\ unit = "PushPullButton"
    /\ ~pushPull.isForcePush
    /\ RenderButton(pushPull).variant = "pull"
    /\ last = Handled("forcePushWithLease", "dropdown")
    /\ calls[2] = <<"confirmOrForcePush", pushPull.repository>>

\* The rules of the selection, each with the negation of all rules before it.
NoProgress(p) == p.progress = "null"

HasRemote(p) == NoProgress(p) /\ p.remoteName # "null"

ValidTip(p) == HasRemote(p) /\ p.tipState = "Valid"

Tracking(p) == ValidTip(p) /\ ~p.aheadBehind.isNull

Diverged(p) ==
    /\ Tracking(p)
    /\ ~(p.aheadBehind.ahead = 0 /\ p.aheadBehind.behind = 0
            /\ p.numTagsToPush = 0)

VariantRule(p, v) ==
    CASE v = "progress" -> ~NoProgress(p)
      [] v = "publishRepository" -> NoProgress(p) /\ p.remoteName = "null"
      [] v = "unbornRepository" -> HasRemote(p) /\ p.tipState = "Unborn"
      [] v = "detachedHead" -> HasRemote(p) /\ p.tipState = "Detached"
      [] v = "publishBranch" -> ValidTip(p) /\ p.aheadBehind.isNull
      [] v = "fetch" -> Tracking(p) /\ ~Diverged(p)
      [] v = "forcePush" -> Diverged(p) /\ p.isForcePush
      [] v = "pull" ->
            Diverged(p) /\ ~p.isForcePush /\ p.aheadBehind.behind > 0
      [] v = "push" ->
            Diverged(p) /\ ~p.isForcePush /\ p.aheadBehind.behind = 0

Variants ==
    {"progress", "publishRepository", "unbornRepository", "detachedHead",
     "publishBranch", "fetch", "forcePush", "pull", "push"}

MainClick(v) ==
    CASE v \in {"progress", "unbornRepository", "detachedHead"} -> "none"
      [] v \in {"publishRepository", "publishBranch", "push"} -> "push"
      [] v = "fetch" -> "fetch"
      [] v = "forcePush" -> "forcePushWithLease"
      [] v = "pull" -> "pull"

\* C13: for every combination of props exactly one variant is rendered, the
\* one of the first matching rule in the order progress, no remote, unborn,
\* detached, no ahead/behind, nothing to transfer, force push, behind,
\* otherwise push; its main click is the listed one, and it is disabled
\* exactly for the progress, unborn and detached variants.
C13_FirstMatchingVariant ==
    unit = "PushPullButton" =>
        /\ RenderButton(pushPull).variant \in Variants
        /\ \A v \in Variants :
              VariantRule(pushPull, v) <=> RenderButton(pushPull).variant = v
        /\ RenderButton(pushPull).onClick
              = MainClick(RenderButton(pushPull).variant)
        /\ RenderButton(pushPull).disabled
              <=> MainClick(RenderButton(pushPull).variant) = "none"
        /\ (last.arg = "button" /\ last.h \in Handlers /\ calls # <<>>)
              => \E q \in PushPullProps : last.h = RenderButton(q).onClick

C13_Witness ==
    /\ unit = "PushPullButton"
    /\ pushPull.tipState = "Unborn"
    /\ pushPull.remoteName = "null"
    /\ pushPull.progress = "null"
    /\ RenderButton(pushPull).variant = "publishRepository"
    /\ last = Handled("push", "button")
    /\ calls[2] = <<"push", pushPull.repository>>

\* C14 (as stated): with networkActionInProgress true no enabled element
\* whose click calls push, pull, fetch or confirmOrForcePush is offered.
C14_NetworkActionBlocks ==
    (unit = "PushPullButton" /\ pushPull.networkActionInProgress)
        => NothingOffered(pushPull)

\* C14 (amended): the button is disabled and offers no push, pull, fetch or
\* force-push while progress is non-null; networkActionInProgress decides
\* only whether the progress icon spins, so the rendered button and what it
\* offers are the same for both of its values, and with progress null and
\* networkActionInProgress true the enabled variants still offer their
\* operations.
C14_ProgressBlocks ==
    unit = "PushPullButton" =>
        /\ pushPull.progress # "null"
              => /\ RenderButton(pushPull).disabled
                 /\ NothingOffered(pushPull)
                 /\ (ProgressIconClassName(pushPull.networkActionInProgress)
                        = "spin") <=> pushPull.networkActionInProgress
        /\ \A n \in BOOLEAN :
              /\ RenderButton(
                    [pushPull EXCEPT !.networkActionInProgress = n])
                    = RenderButton(pushPull)
              /\ \A h \in Handlers :
                    Offered([pushPull EXCEPT !.networkActionInProgress = n],
                            h) = Offered(pushPull, h)

C14_Witness ==
    /\ unit = "PushPullButton"
    /\ pushPull.networkActionInProgress
    /\ pushPull.progress # "null"
    /\ RenderButton(pushPull).variant = "progress"
    /\ last.h = "fetch"

UpdateEmailRequests ==
    {i \in DOMAIN calls' : calls'[i][1] = "onUpdateEmail"}

\* C15: a click on 'Update email' calls onUpdateEmail at most once, with the
\* selected accountEmail, and calls it if and only if accountEmail differs
\* from the email prop; when they are equal the click does nothing but
\* prevent the default and close the popover.
C15_UpdateEmailOnceIffDifferent ==
    [][(isPopoverOpen /\ last'.h = "onUpdateEmailClick"
            /\ <<last, calls, isPopoverOpen>>' # <<last, calls, isPopoverOpen>>)
        => /\ Cardinality(UpdateEmailRequests) <= 1
           /\ UpdateEmailRequests # {} <=> email # accountEmail
           /\ \A i \in UpdateEmailRequests :
                 calls'[i] = <<"onUpdateEmail", accountEmail>>
           /\ \A i \in DOMAIN calls' \ UpdateEmailRequests :
                 calls'[i][1] \in {"preventDefault", "closePopover"}
           /\ ~isPopoverOpen'
           /\ accountEmail' = accountEmail]_vars

C15_Witness ==
    /\ unit = "CommitMessageAvatar"
    /\ last.h = "onUpdateEmailClick"
    /\ lastValidSelection = "b@example.com"
    /\ email = "a@example.com"
    /\ calls[3] = <<"onUpdateEmail", "b@example.com">>
    /\ ~isPopoverOpen

\* C16: the popover starts closed; while a warning is shown every avatar
\* click flips isPopoverOpen, so after n clicks and nothing else the popover
\* is open iff n is odd; with warningType 'none' an avatar click leaves
\* isPopoverOpen as it is; openPopover and closePopover are idempotent.
C16_ClickParity ==
    unit = "CommitMessageAvatar" =>
        /\ clicks <= MaxClicks => (isPopoverOpen <=> clicks % 2 = 1)
        /\ \A wt \in CommitMessageWarningType \ {"none"} :
              OnAvatarClickOpen(wt, isPopoverOpen) = ~isPopoverOpen
        /\ OnAvatarClickOpen("none", isPopoverOpen) = isPopoverOpen
        /\ OnAvatarClickCalls("none", isPopoverOpen) = <<>>
        /\ OpenPopoverUpdater(OpenPopoverUpdater(isPopoverOpen))
              = OpenPopoverUpdater(isPopoverOpen)
        /\ OpenPopoverUpdater(isPopoverOpen) = TRUE
        /\ ClosePopoverUpdater(ClosePopoverUpdater(isPopoverOpen))
              = ClosePopoverUpdater(isPopoverOpen)
        /\ ClosePopoverUpdater(isPopoverOpen) = FALSE

C16_Witness ==
    /\ unit = "CommitMessageAvatar"
    /\ clicks = MaxClicks
    /\ isPopoverOpen
    /\ last.h = "onAvatarClick"

====
